---- MODULE Spec2Model ----
(***************************************************************************)
(* EchoNote: audio segmentation (convert_and_split_audio), per-chunk       *)
(* transcription (transcribe_audio_chunk), transcript assembly             *)
(* (merge_transcript_chunks) and the background job that drives them       *)
(* (process_audio_background / transcribe_audio_file), and the usage       *)
(* accounting of several jobs of one user (update_usage).                  *)
(*                                                                         *)
(* Time.  Word offsets are Python floats (seconds) in the code.  Here they *)
(* are integers counting ticks of 1/TicksPerSecond second; with a power of *)
(* two ticks per second every offset is a dyadic rational, on which float  *)
(* addition is exact, so "+" on ticks is the code's "+".  Audio lengths    *)
(* are integers in milliseconds, as in pydub.                              *)
(*                                                                         *)
(* Text.  A Python string is a sequence of tokens (labels, words, " ",     *)
(* "\n"); the string is the concatenation of its tokens.  The code never   *)
(* looks inside a word, so every word gets a distinct token.               *)
(***************************************************************************)
EXTENDS Integers, Sequences, FiniteSets, TLC

VARIABLES
    \* --- merge_transcript_chunks called on its own --------------------
    chunks_results,   \* the list handed to merge, as the caller built it
    merged_chunks,    \* the same list objects after the call (merge works in place)
    merge_result,     \* what the call returned, NoResult before the call
    second_result,    \* what a second call on the same list returned, NoResult before it
    merge_pc,         \* "build" | "merged" | "merged_again" | "idle"
    \* --- convert_and_split_audio called on its own --------------------
    audio,            \* the normalized input, a run-length list
    chunks,           \* the returned list of chunks
    silence_calls,    \* number of split_on_silence calls made
    split_pc,         \* "input" | "split" | "idle"
    \* --- one job: upload_audio + process_audio_background -------------
    pc,               \* position of the background task
    job_audio,        \* the uploaded audio
    language,         \* the language of the request, "" before the upload
    audio_chunks,     \* transcribe_audio_file: audio_chunks
    loop_i,           \* transcribe_audio_file: the loop index i (chunks done so far)
    chunk_results,    \* transcribe_audio_file: chunk_results
    result_of,        \* for each entry of chunk_results, the index of its chunk
    remote_calls,     \* the calls of long_running_recognize made so far, with their outcome
    final_result,     \* transcribe_audio_file's return value, NoResult if none
    exc,              \* the exception caught by process_audio_background, "none" if none
    transcript,       \* the job's row of table transcripts
    usage,            \* seconds_transcribed of the user's row of table usage
    \* --- update_usage run by several tasks of one user -----------------
    usage_row,        \* the committed row of table usage for the user and period
    sessions          \* per task: position, the job's duration and status, the row it loaded

merge_vars == <<chunks_results, merged_chunks, merge_result, second_result, merge_pc>>
split_vars == <<audio, chunks, silence_calls, split_pc>>
usage_vars == <<usage_row, sessions>>
job_vars == <<pc, job_audio, language, audio_chunks, loop_i, chunk_results, result_of,
              remote_calls, final_result, exc, transcript, usage>>
vars == <<chunks_results, merged_chunks, merge_result, second_result, merge_pc,
          audio, chunks, silence_calls, split_pc,
          pc, job_audio, language, audio_chunks, loop_i, chunk_results, result_of,
          remote_calls, final_result, exc, transcript, usage,
          usage_row, sessions>>

(***************************************************************************)
(* Bounds of the model.                                                    *)
(***************************************************************************)
MaxChunks == 3
MaxWords == 3
TicksPerSecond == 2
MaxRuns == 5
NumTasks == 2

SpeakerTags == {1, 2}
\* Local word spans <<start, end>> in ticks: an empty span, a sub-second word,
\* words ending at 1.0 s and 2.0 s, and a word that starts after tick 0.
WordSpans == {<<0, 0>>, <<0, 1>>, <<0, TicksPerSecond>>, <<0, 2 * TicksPerSecond>>,
              <<1, TicksPerSecond>>}

\* Lengths, in ms, a run of the input may have: silences shorter than, equal
\* to and longer than min_silence_len, stretches that add up to the chunk
\* limit exactly (two of 150000, three of 100000) and one beyond it.
RunLengths == {400, 1000, 3000, 100000, 150000, 400000}

\* Sample values the loud runs of an input may have (16-bit samples)
Amplitudes == {100, 10000, 20000}

\* transcriber.py line 20 (5 * 60 * 1000) and the arguments of split_on_silence
MAX_CHUNK_DURATION_MS == 300000
min_silence_len == 1000
silence_drop_db == 14
\* db_to_float(-silence_drop_db) = 10^(-14/20) = 0.199526231496..., its first
\* twelve decimals in groups of four
silence_ratio == <<1995, 2623, 1496>>
\* AudioSegment.max_possible_amplitude of 16-bit audio
max_possible_amplitude == 32768
keep_silence == 500

NoResult == [raised |-> FALSE, returned |-> FALSE]
None == -1

(***************************************************************************)
(* Small helpers.                                                          *)
(***************************************************************************)
SetMax(S) == CHOOSE x \in S : \A y \in S : y <= x

PyMaxInt(a, b) == IF b > a THEN b ELSE a

RECURSIVE SumSeq(_)
SumSeq(s) == IF s = <<>> THEN 0 ELSE Head(s) + SumSeq(Tail(s))

RECURSIVE Flatten(_)
Flatten(ss) == IF ss = <<>> THEN <<>> ELSE Head(ss) \o Flatten(Tail(ss))

(***************************************************************************)
(* transcribe_audio_chunk: the part after the remote call returned.        *)
(* `words` is the flattened list of word_info of the response, each        *)
(* [word, start_time, end_time, speaker_tag].                              *)
(***************************************************************************)
RECURSIVE SpeakerCountOf(_, _)
SpeakerCountOf(words, speaker_count) ==
    IF words = <<>> THEN speaker_count
    ELSE SpeakerCountOf(Tail(words),
                        IF Head(words).speaker_tag > speaker_count
                        THEN Head(words).speaker_tag ELSE speaker_count)

RECURSIVE JoinSpace(_)
JoinSpace(tokens) ==
    IF tokens = <<>> THEN <<>>
    ELSE IF Len(tokens) = 1 THEN tokens
    ELSE <<Head(tokens), " ">> \o JoinSpace(Tail(tokens))

transcribe_audio_chunk(words) ==
    [segments |-> [k \in 1..Len(words) |->
                     [word |-> words[k].word,
                      start_time |-> words[k].start_time,
                      end_time |-> words[k].end_time,
                      speaker |-> words[k].speaker_tag]],
     speaker_count |-> SpeakerCountOf(words, 0),
     transcript |-> JoinSpace([k \in 1..Len(words) |-> words[k].word])]

(***************************************************************************)
(* merge_transcript_chunks.                                                *)
(***************************************************************************)
\* a rebasing that forgets the end offset
RebaseSegment_StartOnly(segment, total_duration) ==
    [segment EXCEPT !.start_time = @ + total_duration]

\* lines 153-154: the segment dict is updated in place
RebaseSegment(segment, total_duration) ==
    [segment EXCEPT !.start_time = @ + total_duration,
                    !.end_time = @ + total_duration]

\* the update without its guard: max() of no segments raises
NextTotalDuration_NoGuard(total_duration, segments) ==
    IF segments # <<>>
    THEN [raised |-> FALSE,
          value |-> SetMax({segments[k].end_time : k \in 1..Len(segments)})]
    ELSE [raised |-> TRUE, value |-> total_duration]

\* lines 157-158: max() of an empty sequence raises ValueError, hence the guard.
\* `segments` are the chunk's segments after rebasing.
NextTotalDuration(total_duration, segments) ==
    IF segments # <<>>
    THEN [raised |-> FALSE,
          value |-> SetMax({segments[k].end_time : k \in 1..Len(segments)})]
    ELSE [raised |-> FALSE, value |-> total_duration]

\* the last chunk's count instead of the running maximum
NextMaxSpeakerCount_LastWins(max_speaker_count, chunk_result) ==
    chunk_result.speaker_count

\* line 160
NextMaxSpeakerCount(max_speaker_count, chunk_result) ==
    PyMaxInt(max_speaker_count, chunk_result.speaker_count)

\* lines 146-160: the loop over chunks_results, from chunk i on.
\* acc = [all_segments, total_duration, max_speaker_count, rebased, raised]
RECURSIVE MergeLoop(_, _, _)
MergeLoop(chunks_res, i, acc) ==
    IF i > Len(chunks_res) \/ acc.raised THEN acc
    ELSE LET chunk_result == chunks_res[i]
             segments == [k \in 1..Len(chunk_result.segments) |->
                            RebaseSegment(chunk_result.segments[k], acc.total_duration)]
             nxt == NextTotalDuration(acc.total_duration, segments)
             after ==
                [all_segments |-> acc.all_segments \o segments,
                 total_duration |-> IF nxt.raised THEN acc.total_duration ELSE nxt.value,
                 max_speaker_count |->
                     NextMaxSpeakerCount(acc.max_speaker_count, chunk_result),
                 rebased |-> Append(acc.rebased,
                                    [chunk_result EXCEPT !.segments = segments]),
                 raised |-> nxt.raised]
         IN  \* the next turn starts from the value of `after`
             CHOOSE out \in {MergeLoop(chunks_res, i + 1, a) : a \in {after}} : TRUE

\* a sort that puts a segment in front of the segments with the same start_time
RECURSIVE InsertByStart_BeforeTies(_, _)
InsertByStart_BeforeTies(sorted, segment) ==
    IF sorted = <<>> THEN <<segment>>
    ELSE IF sorted[Len(sorted)].start_time < segment.start_time
         THEN Append(sorted, segment)
         ELSE Append(InsertByStart_BeforeTies(SubSeq(sorted, 1, Len(sorted) - 1), segment),
                     sorted[Len(sorted)])

\* line 166: sorted(all_segments, key=start_time) is a stable sort
RECURSIVE InsertByStart(_, _)
InsertByStart(sorted, segment) ==
    IF sorted = <<>> THEN <<segment>>
    ELSE IF sorted[Len(sorted)].start_time <= segment.start_time
         THEN Append(sorted, segment)
         ELSE Append(InsertByStart(SubSeq(sorted, 1, Len(sorted) - 1), segment),
                     sorted[Len(sorted)])

RECURSIVE SortedByStart(_, _)
SortedByStart(segments, sorted) ==
    IF segments = <<>> THEN sorted
    ELSE SortedByStart(Tail(segments), InsertByStart(sorted, Head(segments)))

SpeakerLabel(speaker) == "Speaker " \o ToString(speaker) \o ": "

\* a label for the first word only
StartsNewTurn_FirstOnly(segment, current_speaker) == current_speaker = None

\* line 167
StartsNewTurn(segment, current_speaker) == segment.speaker # current_speaker

\* lines 163-172: the rendering loop
RECURSIVE RenderLoop(_, _, _)
RenderLoop(segments, transcript_text, current_speaker) ==
    IF segments = <<>> THEN transcript_text
    ELSE LET segment == Head(segments)
             label == IF StartsNewTurn(segment, current_speaker)
                      THEN (IF current_speaker # None THEN <<"\n">> ELSE <<>>)
                           \o <<SpeakerLabel(segment.speaker)>>
                      ELSE <<>>
         IN  RenderLoop(Tail(segments),
                        transcript_text \o label \o <<segment.word, " ">>,
                        IF StartsNewTurn(segment, current_speaker)
                        THEN segment.speaker ELSE current_speaker)

IsSpace(token) == token \in {" ", "\n"}

\* str.strip(): leading and trailing whitespace removed
RECURSIVE PyStrip(_)
PyStrip(text) ==
    IF text = <<>> THEN text
    ELSE IF IsSpace(text[Len(text)]) THEN PyStrip(SubSeq(text, 1, Len(text) - 1))
    ELSE IF IsSpace(Head(text)) THEN PyStrip(Tail(text))
    ELSE text

\* rounding up instead of truncating
DurationSeconds_RoundUp(total_duration) ==
    (total_duration + TicksPerSecond - 1) \div TicksPerSecond

\* line 177: int() truncates toward zero; total_duration is never negative
DurationSeconds(total_duration) == total_duration \div TicksPerSecond

\* lines 143-182.  The call either returns the dict or raises; `chunks_after`
\* is the state of the caller's chunk dicts when the call ends.
merge_transcript_chunks(chunks_res) ==
    LET acc == MergeLoop(chunks_res, 1,
                   [all_segments |-> <<>>, total_duration |-> 0,
                    max_speaker_count |-> 0, rebased |-> <<>>, raised |-> FALSE])
        chunks_after == acc.rebased
                        \o SubSeq(chunks_res, Len(acc.rebased) + 1, Len(chunks_res))
        \* lines 166-175, each step applied to the value of the one before
        transcript_text ==
            CHOOSE stripped \in
                {PyStrip(rendered) :
                    rendered \in {RenderLoop(sorted, <<>>, None) :
                        sorted \in {SortedByStart(acc.all_segments, <<>>)}}} : TRUE
    IN  IF acc.raised
        THEN [raised |-> TRUE, returned |-> FALSE, chunks_after |-> chunks_after]
        ELSE [raised |-> FALSE, returned |-> TRUE, chunks_after |-> chunks_after,
              transcript_text |-> transcript_text,
              speaker_count |-> acc.max_speaker_count,
              duration_seconds |-> DurationSeconds(acc.total_duration)]

(***************************************************************************)
(* merge_transcript_chunks on its own: the caller builds a list of chunk   *)
(* results, every one made by transcribe_audio_chunk from a response of    *)
(* the recognition service, and calls merge on it once.                    *)
(***************************************************************************)
WordsOf(chunk_result) ==
    [k \in 1..Len(chunk_result.segments) |->
        [word |-> chunk_result.segments[k].word,
         start_time |-> chunk_result.segments[k].start_time,
         end_time |-> chunk_result.segments[k].end_time,
         speaker_tag |-> chunk_result.segments[k].speaker]]

HasWords(chunk_result) == chunk_result.segments # <<>>

WordCount(chunks_res) ==
    SumSeq([i \in 1..Len(chunks_res) |-> Len(chunks_res[i].segments)])

WordInfo(n, span, tag) ==
    [word |-> "w" \o ToString(n), start_time |-> span[1], end_time |-> span[2],
     speaker_tag |-> tag]

\* a nullable column or value: <<>> is NULL / None, <<v>> holds v
Null == <<>>

Some(v) == <<v>>

\* table transcripts before upload_audio created the job's row
NoRow == [status |-> "none", transcript_text |-> Null, summary_text |-> Null,
          duration_seconds |-> Null, speaker_count |-> Null,
          gcs_uri |-> Null, completed_at |-> Null]

JobIdle ==
    /\ pc = "idle"
    /\ job_audio = <<>>
    /\ language = ""
    /\ audio_chunks = <<>>
    /\ loop_i = 0
    /\ chunk_results = <<>>
    /\ result_of = <<>>
    /\ remote_calls = <<>>
    /\ final_result = NoResult
    /\ exc = "none"
    /\ transcript = NoRow
    /\ usage = 0

UsageIdle ==
    /\ usage_row = Null
    /\ sessions = <<>>

SplitIdle ==
    /\ audio = <<>>
    /\ chunks = <<>>
    /\ silence_calls = 0
    /\ split_pc = "idle"

MergeIdle ==
    /\ chunks_results = <<>>
    /\ merged_chunks = <<>>
    /\ merge_result = NoResult
    /\ second_result = NoResult
    /\ merge_pc = "idle"

MergeInit ==
    /\ chunks_results = <<>>
    /\ merged_chunks = <<>>
    /\ merge_result = NoResult
    /\ second_result = NoResult
    /\ merge_pc = "build"
    /\ SplitIdle
    /\ JobIdle
    /\ UsageIdle

\* a chunk whose response holds no word yet
NewChunkResult ==
    /\ merge_pc = "build"
    /\ Len(chunks_results) < MaxChunks
    /\ chunks_results' = Append(chunks_results, transcribe_audio_chunk(<<>>))
    /\ UNCHANGED <<merged_chunks, merge_result, second_result, merge_pc>>
    /\ UNCHANGED split_vars
    /\ UNCHANGED job_vars
    /\ UNCHANGED usage_vars

\* one more word in the response of the last chunk
NextWordInfo ==
    /\ merge_pc = "build"
    /\ chunks_results # <<>>
    /\ WordCount(chunks_results) < MaxWords
    /\ \E span \in WordSpans, tag \in SpeakerTags :
         LET n == Len(chunks_results)
             words == Append(WordsOf(chunks_results[n]),
                             WordInfo(WordCount(chunks_results) + 1, span, tag))
         IN  chunks_results' =
                 [chunks_results EXCEPT ![n] = transcribe_audio_chunk(words)]
    /\ UNCHANGED <<merged_chunks, merge_result, second_result, merge_pc>>
    /\ UNCHANGED split_vars
    /\ UNCHANGED job_vars
    /\ UNCHANGED usage_vars

CallMerge ==
    /\ merge_pc = "build"
    /\ \E r \in {merge_transcript_chunks(chunks_results)} :
         /\ merge_result' = r
         /\ merged_chunks' = r.chunks_after
    /\ merge_pc' = "merged"
    /\ UNCHANGED <<chunks_results, second_result>>
    /\ UNCHANGED split_vars
    /\ UNCHANGED job_vars
    /\ UNCHANGED usage_vars

\* merge_transcript_chunks called once more with the list of the first call:
\* the list holds the same dicts, as the first call left them
CallMergeAgain ==
    /\ merge_pc = "merged"
    /\ merge_result.returned
    /\ \E r \in {merge_transcript_chunks(merged_chunks)} :
         /\ second_result' = r
         /\ merged_chunks' = r.chunks_after
    /\ merge_pc' = "merged_again"
    /\ UNCHANGED <<chunks_results, merge_result>>
    /\ UNCHANGED split_vars
    /\ UNCHANGED job_vars
    /\ UNCHANGED usage_vars

MergeNext == NewChunkResult \/ NextWordInfo \/ CallMerge \/ CallMergeAgain

SpecMerge == MergeInit /\ [][MergeNext]_vars

(***************************************************************************)
(* convert_and_split_audio.                                                *)
(*                                                                         *)
(* The normalized audio is a list of runs [loud, len], len ms long,        *)
(* alternating: a loud run is signal whose samples all have the magnitude  *)
(* amp, the same in every loud run of an input; a run that is not loud is  *)
(* digital silence, amp = 0.  The mean square of a stretch is then amp^2   *)
(* times the share of loud ms in it.  Run lengths are multiples of 100 ms. *)
(* An AudioSegment cut from the input is the list of the ranges            *)
(* <<start, end>> (ms of the input) it is made of; its len() is the sum of *)
(* their lengths and "+" is concatenation.                                 *)
(***************************************************************************)
AudioLen(a) == SumSeq([k \in 1..Len(a) |-> a[k].len])

RunStart(a, k) == SumSeq([j \in 1..(k - 1) |-> a[j].len])

SegmentLen(segment) == SumSeq([k \in 1..Len(segment) |-> segment[k][2] - segment[k][1]])

\* ms of [from, to) that lie in loud runs; from and to are counted from the
\* start of the first run of a
RECURSIVE LoudIn(_, _, _)
LoudIn(a, from, to) ==
    IF a = <<>> \/ to <= 0 THEN 0
    ELSE LET len == Head(a).len
             hi == IF to < len THEN to ELSE len
         IN  (IF Head(a).loud THEN PyMaxInt(0, hi - PyMaxInt(0, from)) ELSE 0)
             + LoudIn(Tail(a), from - len, to - len)

\* the magnitude of the samples of the loud runs, 0 when there is none
AudioAmplitude(a) == SetMax({a[k].amp : k \in 1..Len(a)} \cup {0})

\* the largest r with r * r <= n, searched between lo and hi, where
\* lo * lo <= n < hi * hi
RECURSIVE IntSqrt(_, _, _)
IntSqrt(n, lo, hi) ==
    IF hi - lo <= 1 THEN lo
    ELSE CHOOSE out \in { IF mid * mid <= n THEN IntSqrt(n, mid, hi)
                          ELSE IntSqrt(n, lo, mid) :
                            mid \in {(lo + hi) \div 2} } : TRUE

\* sum of squares / number of samples, rounded down, of a stretch of which
\* loud_len of total_len (same unit) are loud: amp^2 * loud_len / total_len,
\* computed from the quotient and the remainder of amp^2 by total_len
MeanSquare(amp, loud_len, total_len) ==
    ((amp * amp) \div total_len) * loud_len
        + (((amp * amp) % total_len) * loud_len) \div total_len

\* AudioSegment.rms (audioop.rms): int(sqrt(sum of squares / number of samples))
Rms(amp, loud_len, total_len) ==
    IntSqrt(MeanSquare(amp, loud_len, total_len), 0, max_possible_amplitude)

\* transcriber.py line 63 and detect_silence: silence_thresh = audio.dBFS - 14
\* becomes db_to_float(silence_thresh) * max_possible_amplitude, which is
\* 10^(-14/20) times the rms of the whole audio; a slice's rms is an integer,
\* so only the integer part of the threshold counts
SilenceThresh(rms) ==
    (rms * silence_ratio[1]
        + (rms * silence_ratio[2] + (rms * silence_ratio[3]) \div 10000) \div 10000)
        \div 10000

\* detect_silence: audio_slice.rms <= silence_thresh, for a slice of
\* min_silence_len ms of which loud_len are loud; int(sqrt(x)) <= t iff
\* x < (t + 1)^2
SliceSilent(amp, thresh, loud_len) ==
    MeanSquare(amp, loud_len, min_silence_len) < (thresh + 1) * (thresh + 1)

\* the largest number of loud ms with which a slice is silent, searched
\* between lo (silent) and hi (not silent, or more than a slice holds)
RECURSIVE MostLoud(_, _, _, _)
MostLoud(amp, thresh, lo, hi) ==
    IF hi - lo <= 1 THEN lo
    ELSE CHOOSE out \in { IF SliceSilent(amp, thresh, mid)
                          THEN MostLoud(amp, thresh, mid, hi)
                          ELSE MostLoud(amp, thresh, lo, mid) :
                            mid \in {(lo + hi) \div 2} } : TRUE

\* The most loud ms a silent slice of min_silence_len ms can hold in the
\* audio a (lengths of the whole audio taken in units of 100 ms to keep the
\* products small)
MaxLoudInSilence(a) ==
    CHOOSE out \in
        UNION { { MostLoud(amp, thresh, 0, min_silence_len + 1) :
                    thresh \in {SilenceThresh(Rms(amp, LoudIn(a, 0, AudioLen(a)) \div 100,
                                                  AudioLen(a) \div 100))} } :
                  amp \in {AudioAmplitude(a)} } : TRUE

RECURSIVE SortedSet(_)
SortedSet(S) ==
    IF S = {} THEN <<>>
    ELSE CHOOSE out \in {<<m>> \o SortedSet(S \ {m}) :
                             m \in {x \in S : \A y \in S : x <= y}} : TRUE

\* the slice starts at which the loud ms of the slice, as a function of the
\* start, can change slope: run boundaries seen from either end of the slice
SliceBreaks(a) ==
    LET last_slice_start == AudioLen(a) - min_silence_len
        bounds == {RunStart(a, k) : k \in 1..(Len(a) + 1)}
    IN  SortedSet({b \in bounds \cup {b - min_silence_len : b \in bounds}
                              \cup {0, last_slice_start} :
                      0 <= b /\ b <= last_slice_start})

\* the silent slice starts between two consecutive breaks p <= q, as <<first,
\* last>>, from the loud ms at_p and at_q of the slices starting at p and q and
\* the most loud ms a silent slice holds; between breaks the loud ms change by
\* -1, 0 or 1 per ms
SilentStartsBetween(most, p, at_p, q, at_q) ==
    IF at_p <= most /\ at_q <= most THEN << <<p, q>> >>
    ELSE IF at_p <= most THEN << <<p, p + (most - at_p)>> >>
    ELSE IF at_q <= most THEN << <<q - (most - at_q), q>> >>
    ELSE <<>>

\* detect_silence, second loop: starts that are consecutive or no more than
\* min_silence_len apart belong to one silent range
RECURSIVE SilentRangesLoop(_, _)
SilentRangesLoop(starts, ranges) ==
    IF starts = <<>> THEN ranges
    ELSE CHOOSE out \in
             { SilentRangesLoop(rest,
                   IF n > 0 /\ first <= ranges[n][2]
                   THEN [ranges EXCEPT ![n][2] = PyMaxInt(@, last + min_silence_len)]
                   ELSE Append(ranges, <<first, last + min_silence_len>>)) :
                 first \in {Head(starts)[1]}, last \in {Head(starts)[2]},
                 n \in {Len(ranges)}, rest \in {Tail(starts)} } : TRUE

\* the loud ms of the slice starting at each break
SliceLoud(a, breaks) ==
    Flatten([j \in 1..Len(breaks) |->
        <<LoudIn(a, breaks[j], breaks[j] + min_silence_len)>>])

\* stretches of starts that touch or overlap made one
RECURSIVE JoinStretches(_, _)
JoinStretches(stretches, joined) ==
    IF stretches = <<>> THEN joined
    ELSE CHOOSE out \in
             { JoinStretches(rest,
                   IF n > 0 /\ next[1] <= joined[n][2] + 1
                   THEN [joined EXCEPT ![n][2] = PyMaxInt(@, next[2])]
                   ELSE Append(joined, next)) :
                 next \in {Head(stretches)}, rest \in {Tail(stretches)},
                 n \in {Len(joined)} } : TRUE

\* detect_silence, first loop: the starts of the silent slices, as the
\* stretches <<first, last>> of consecutive starts, in increasing order
SilentStarts(most, breaks, loud) ==
    IF Len(breaks) = 1
    THEN SilentStartsBetween(most, breaks[1], loud[1], breaks[1], loud[1])
    ELSE JoinStretches(
             Flatten([j \in 1..(Len(breaks) - 1) |->
                 SilentStartsBetween(most, breaks[j], loud[j], breaks[j + 1], loud[j + 1])]),
             <<>>)

\* pydub.silence.detect_silence with seek_step = 1: the ranges [start, end]
\* covered by silent slices of min_silence_len ms
detect_silence(a) ==
    IF AudioLen(a) < min_silence_len THEN <<>>
    ELSE CHOOSE out \in
             UNION { { SilentRangesLoop(starts, <<>>) :
                         starts \in {SilentStarts(most, breaks, loud) :
                                        loud \in {SliceLoud(a, breaks)}} } :
                       most \in {MaxLoudInSilence(a)},
                       breaks \in {SliceBreaks(a)} } : TRUE

\* pydub.silence.detect_nonsilent: the loop over silent_ranges
RECURSIVE NonsilentLoop(_, _, _)
NonsilentLoop(silent_ranges, k, prev_end_i) ==
    IF k > Len(silent_ranges) THEN <<>>
    ELSE << <<prev_end_i, silent_ranges[k][1]>> >>
         \o NonsilentLoop(silent_ranges, k + 1, silent_ranges[k][2])

detect_nonsilent(a) ==
    CHOOSE out \in
        { IF silent_ranges = <<>> THEN << <<0, len_seg>> >>
          ELSE IF silent_ranges[1][1] = 0 /\ silent_ranges[1][2] = len_seg THEN <<>>
          ELSE LET end_i == silent_ranges[Len(silent_ranges)][2]
                   ranges == NonsilentLoop(silent_ranges, 1, 0)
                             \o (IF end_i # len_seg THEN << <<end_i, len_seg>> >> ELSE <<>>)
               IN  IF ranges[1] = <<0, 0>> THEN Tail(ranges) ELSE ranges :
            silent_ranges \in {detect_silence(a)}, len_seg \in {AudioLen(a)} } : TRUE

\* pydub.silence.split_on_silence: every non-silent range padded by
\* keep_silence on both sides, two padded ranges that overlap meeting halfway,
\* the result clipped to the input
split_on_silence(a) ==
    CHOOSE out \in
        { LET n == Len(nonsilent)
              padded == [k \in 1..n |-> <<nonsilent[k][1] - keep_silence,
                                          nonsilent[k][2] + keep_silence>>]
              Overlap(k) == padded[k + 1][1] < padded[k][2]
              Middle(k) == (padded[k][2] + padded[k + 1][1]) \div 2
              output_ranges == [k \in 1..n |->
                  <<IF k > 1 /\ Overlap(k - 1) THEN Middle(k - 1) ELSE padded[k][1],
                    IF k < n /\ Overlap(k) THEN Middle(k) ELSE padded[k][2]>>]
          IN  [k \in 1..n |->
                  << <<PyMaxInt(0, output_ranges[k][1]),
                       IF output_ranges[k][2] < len_seg
                       THEN output_ranges[k][2] ELSE len_seg>> >>] :
            nonsilent \in {detect_nonsilent(a)}, len_seg \in {AudioLen(a)} } : TRUE

\* the test `len(audio) < MAX_CHUNK_DURATION_MS`
FitsOneChunk_Strict(a) == AudioLen(a) < MAX_CHUNK_DURATION_MS

\* line 53
FitsOneChunk(a) == AudioLen(a) <= MAX_CHUNK_DURATION_MS

\* a loop that takes a segment into the current chunk only while that chunk
\* is still empty
FitsCurrentChunk_EmptyOnly(current_chunk, chunk) == SegmentLen(current_chunk) = 0

\* line 70
FitsCurrentChunk(current_chunk, chunk) ==
    SegmentLen(current_chunk) + SegmentLen(chunk) <= MAX_CHUNK_DURATION_MS

\* lines 67-77: the grouping loop; acc = [current_chunk, chunks]
RECURSIVE GroupLoop(_, _)
GroupLoop(silence_chunks, acc) ==
    IF silence_chunks = <<>> THEN acc
    ELSE LET chunk == Head(silence_chunks)
         IN  GroupLoop(Tail(silence_chunks),
                IF FitsCurrentChunk(acc.current_chunk, chunk)
                THEN [acc EXCEPT !.current_chunk = @ \o chunk]
                ELSE [current_chunk |-> chunk,
                      chunks |-> IF SegmentLen(acc.current_chunk) > 0
                                 THEN Append(acc.chunks, acc.current_chunk)
                                 ELSE acc.chunks])

\* lines 51-86, for an input that decodes.  The result is the list of chunks;
\* silence_calls counts the calls of split_on_silence made.
convert_and_split_audio(a) ==
    IF FitsOneChunk(a)
    THEN [chunks |-> << << <<0, AudioLen(a)>> >> >>, silence_calls |-> 0]
    ELSE CHOOSE out \in
             { [chunks |-> IF SegmentLen(acc.current_chunk) > 0
                           THEN Append(acc.chunks, acc.current_chunk)
                           ELSE acc.chunks,
                silence_calls |-> 1] :
                 acc \in { GroupLoop(silence_chunks,
                                     [current_chunk |-> <<>>, chunks |-> <<>>]) :
                             silence_chunks \in {split_on_silence(a)} } } : TRUE

(***************************************************************************)
(* convert_and_split_audio on its own: an input is laid out run by run,    *)
(* then split once.                                                        *)
(***************************************************************************)
SplitInit ==
    /\ audio = <<>>
    /\ chunks = <<>>
    /\ silence_calls = 0
    /\ split_pc = "input"
    /\ MergeIdle
    /\ JobIdle
    /\ UsageIdle

\* one more run of the input, loud and silent alternating; the first loud
\* run sets the amplitude of the input
NextRun ==
    /\ split_pc = "input"
    /\ Len(audio) < MaxRuns
    /\ \E loud \in BOOLEAN, len \in RunLengths :
         /\ audio # <<>> => audio[Len(audio)].loud # loud
         /\ \E amp \in (IF ~loud THEN {0}
                         ELSE IF AudioAmplitude(audio) > 0 THEN {AudioAmplitude(audio)}
                         ELSE Amplitudes) :
              audio' = Append(audio, [loud |-> loud, len |-> len, amp |-> amp])
    /\ UNCHANGED <<chunks, silence_calls, split_pc>>
    /\ UNCHANGED merge_vars
    /\ UNCHANGED job_vars
    /\ UNCHANGED usage_vars

CallSplit ==
    /\ split_pc = "input"
    /\ audio # <<>>
    /\ \E r \in {convert_and_split_audio(audio)} :
         /\ chunks' = r.chunks
         /\ silence_calls' = silence_calls + r.silence_calls
    /\ split_pc' = "split"
    /\ UNCHANGED audio
    /\ UNCHANGED merge_vars
    /\ UNCHANGED job_vars
    /\ UNCHANGED usage_vars

SplitNext == NextRun \/ CallSplit

SpecSplit == SplitInit /\ [][SplitNext]_vars

(***************************************************************************)
(* Properties of convert_and_split_audio (SpecSplit).                      *)
(***************************************************************************)
SplitDone == split_pc = "split"

\* the ranges of the input the chunks are made of, in chunk order
ChunkRanges == Flatten(chunks)

HasDetectableSilence ==
    \E k \in 1..Len(audio) : ~audio[k].loud /\ audio[k].len >= min_silence_len

\* C8: an input no longer than the maximum chunk duration comes back as
\* exactly one chunk spanning the whole input, and split_on_silence is not
\* called.
C8_ShortAudioOneChunk ==
    (SplitDone /\ AudioLen(audio) <= MAX_CHUNK_DURATION_MS) =>
        /\ Len(chunks) = 1
        /\ chunks[1] = << <<0, AudioLen(audio)>> >>
        /\ silence_calls = 0

\* C8 witness: an input of exactly the maximum duration that holds a silence
\* split_on_silence would have cut at.
C8_Witness ==
    /\ SplitDone
    /\ AudioLen(audio) = MAX_CHUNK_DURATION_MS
    /\ HasDetectableSilence
    /\ chunks = << << <<0, MAX_CHUNK_DURATION_MS>> >> >>
    /\ silence_calls = 0

\* C9: every chunk returned is at most the maximum chunk duration long.
C9_ChunksBounded ==
    SplitDone =>
        \A c \in 1..Len(chunks) : SegmentLen(chunks[c]) <= MAX_CHUNK_DURATION_MS

\* C10: the chunks' spans are contiguous and non-overlapping and together
\* cover the input from 0 to its end: nothing dropped, nothing duplicated.
C10_ChunksCoverInput ==
    SplitDone =>
        /\ ChunkRanges # <<>>
        /\ ChunkRanges[1][1] = 0
        /\ \A k \in 1..(Len(ChunkRanges) - 1) : ChunkRanges[k + 1][1] = ChunkRanges[k][2]
        /\ ChunkRanges[Len(ChunkRanges)][2] = AudioLen(audio)

\* the segments split_on_silence cuts the input into, as ranges of the input
SilenceSegments == Flatten(split_on_silence(audio))

LongAudioSplit == SplitDone /\ ~FitsOneChunk(audio)

\* C11: for an input longer than the maximum chunk duration the chunks,
\* concatenated in order, are exactly the segments split_on_silence returned,
\* in their order, no chunk and no segment is empty, and for every two
\* consecutive chunks the duration of the earlier one plus the duration of the
\* first segment of the later one is greater than the maximum chunk duration.
C11_GreedyPacking ==
    LongAudioSplit =>
        /\ ChunkRanges = SilenceSegments
        /\ \A c \in 1..Len(chunks) :
             /\ chunks[c] # <<>>
             /\ \A k \in 1..Len(chunks[c]) : chunks[c][k][1] < chunks[c][k][2]
        /\ \A c \in 1..(Len(chunks) - 1) :
             SegmentLen(chunks[c]) + SegmentLen(<<chunks[c + 1][1]>>)
                 > MAX_CHUNK_DURATION_MS

\* C11 witness: three segments, the first two packed into one chunk, which is
\* closed because the third does not fit.
C11_Witness ==
    /\ LongAudioSplit
    /\ Len(SilenceSegments) = 3
    /\ Len(chunks) = 2
    /\ Len(chunks[1]) = 2
    /\ SegmentLen(chunks[1]) <= MAX_CHUNK_DURATION_MS
    /\ SegmentLen(chunks[1]) + SegmentLen(chunks[2]) > MAX_CHUNK_DURATION_MS

(***************************************************************************)
(* One job: upload_audio creates the row and queues                        *)
(* process_audio_background, which runs transcribe_audio_file, the summary *)
(* and the database updates.  Every call to a collaborator (storage,       *)
(* decoder, recognition service, summarizer, the database in               *)
(* update_transcript_status and update_usage) either returns or raises.    *)
(***************************************************************************)
\* the uploads a job is run on: 1, 2, 3 and 0 chunks
JobAudios ==
    { <<[loud |-> TRUE, len |-> 150000, amp |-> 10000]>>,
      <<[loud |-> TRUE, len |-> 150000, amp |-> 10000], [loud |-> FALSE, len |-> 3000, amp |-> 0],
        [loud |-> TRUE, len |-> 150000, amp |-> 10000], [loud |-> FALSE, len |-> 3000, amp |-> 0]>>,
      <<[loud |-> TRUE, len |-> 150000, amp |-> 10000], [loud |-> FALSE, len |-> 3000, amp |-> 0],
        [loud |-> TRUE, len |-> 150000, amp |-> 10000], [loud |-> FALSE, len |-> 3000, amp |-> 0],
        [loud |-> TRUE, len |-> 150000, amp |-> 10000]>>,
      <<[loud |-> FALSE, len |-> 400000, amp |-> 0]>> }

\* main.py line 157: the languages a request may name
Languages == {"it", "en"}

\* a word the recognition service ended a sentence with (automatic punctuation)
SentenceEnd(n) == "w" \o ToString(n) \o "."

EndsSentence(token) == \E n \in 1..MaxChunks : token = SentenceEnd(n)

PeriodWordInfo(n, span, tag) == [WordInfo(n, span, tag) EXCEPT !.word = SentenceEnd(n)]

\* summarizer.py lines 87-90
SummaryPrefix(lang) ==
    IF lang = "it" THEN "Riassunto automatico della riunione:\n\n"
    ELSE "Automatic meeting summary:\n\n"

\* summarizer.py line 79, transcript_text.split('. '): the text is cut where a
\* word ending in "." is followed by " ".  Every piece but the last keeps its
\* ". ", which is what '. '.join (line 85) puts back after it.
Sentences(text) ==
    LET cuts == SelectSeq([p \in 1..Len(text) |-> p],
                          LAMBDA p : /\ p < Len(text)
                                     /\ EndsSentence(text[p])
                                     /\ text[p + 1] = " ")
        n == Len(cuts)
    IN  [k \in 1..(n + 1) |->
            SubSeq(text, IF k = 1 THEN 1 ELSE cuts[k - 1] + 2,
                         IF k = n + 1 THEN Len(text) ELSE cuts[k] + 1)]

\* summarizer.py lines 77-90: up to 5 sentences are kept as they are, of more
\* the first 3 and the last 2
generate_basic_summary(transcript_text, lang) ==
    LET sentences == Sentences(transcript_text)
        summary_sentences ==
            IF Len(sentences) <= 5 THEN sentences
            ELSE SubSeq(sentences, 1, 3)
                 \o SubSeq(sentences, Len(sentences) - 1, Len(sentences))
    IN  <<SummaryPrefix(lang)>> \o Flatten(summary_sentences)

\* the responses the recognition service may give for chunk number n
JobResponses(n) ==
    {<<>>} \cup {<<WordInfo(n, span, tag)>> :
                    span \in {<<0, 1>>, <<0, TicksPerSecond>>}, tag \in SpeakerTags}
           \cup {<<PeriodWordInfo(n, <<0, 1>>, 1), PeriodWordInfo(n, <<1, TicksPerSecond>>, 1)>>}

\* what long_running_recognize / operation.result may raise: the service is
\* unavailable, the wait timed out (both transient), the audio is rejected
TransientFaults == {"ServiceUnavailable", "Timeout"}

RemoteFaults == TransientFaults \cup {"InvalidArgument"}

GcsUri == "gs://bucket/audio/uuid/filename"


\* database.py create_transcript, as upload_audio calls it
create_transcript ==
    [status |-> "pending", transcript_text |-> Null, summary_text |-> Null,
     duration_seconds |-> Null, speaker_count |-> Null,
     gcs_uri |-> Some(""), completed_at |-> Null]

\* database.py update_transcript_status, lines 118-128: nothing is written
\* when there is no row; otherwise the status, then the keyword arguments (a
\* record of column values), then completed_at when the status is 'done'
update_transcript_status(row, status, kwargs) ==
    IF row = NoRow THEN row
    ELSE [col \in DOMAIN row |->
            IF col = "completed_at" /\ status = "done" THEN Some("utcnow")
            ELSE IF col \in DOMAIN kwargs THEN Some(kwargs[col])
            ELSE IF col = "status" THEN status
            ELSE row[col]]

\* database.py update_usage: the period's row is created or added to
update_usage(seconds_so_far, seconds_transcribed) == seconds_so_far + seconds_transcribed

\* transcriber.py lines 139-141 and 209-211, main.py line 137: the exception
\* of transcribe_audio_chunk is re-raised up to process_audio_background
AfterChunkRaise(index) == [pc |-> "except", exc |-> "chunk", i |-> index]

\* a result put in front of the list
CollectResult_InFront(results, result) == <<result>> \o results

\* transcriber.py line 200
CollectResult(results, result) == Append(results, result)

\* main.py lines 146-199, for a request that passes validation
upload_audio ==
    /\ pc = "idle"
    /\ \E a \in JobAudios : job_audio' = a
    /\ \E l \in Languages : language' = l
    /\ transcript' = create_transcript
    /\ pc' = "queued"
    /\ UNCHANGED <<audio_chunks, loop_i, chunk_results, result_of, remote_calls, final_result, exc, usage>>
    /\ UNCHANGED merge_vars
    /\ UNCHANGED split_vars
    /\ UNCHANGED usage_vars

\* main.py lines 100-108: 'processing' is committed, or the write raises
StartProcessing ==
    /\ pc = "queued"
    /\ \E ok \in BOOLEAN :
         /\ pc' = IF ok THEN "upload" ELSE "except"
         /\ exc' = IF ok THEN exc ELSE "status"
         /\ transcript' = IF ok
                          THEN update_transcript_status(transcript, "processing", <<>>)
                          ELSE transcript
    /\ UNCHANGED <<job_audio, language, audio_chunks, loop_i, chunk_results, result_of, remote_calls, final_result,
                   usage>>
    /\ UNCHANGED merge_vars
    /\ UNCHANGED split_vars
    /\ UNCHANGED usage_vars

\* transcriber.py line 190: upload_audio_to_gcs returns or raises
UploadToGcs ==
    /\ pc = "upload"
    /\ \E ok \in BOOLEAN :
         /\ pc' = IF ok THEN "split" ELSE "except"
         /\ exc' = IF ok THEN exc ELSE "upload"
    /\ UNCHANGED <<job_audio, language, audio_chunks, loop_i, chunk_results, result_of, remote_calls, final_result,
                   transcript, usage>>
    /\ UNCHANGED merge_vars
    /\ UNCHANGED split_vars
    /\ UNCHANGED usage_vars

\* transcriber.py line 193: convert_and_split_audio returns the chunks, or
\* raises when the upload does not decode
SplitAudio ==
    /\ pc = "split"
    /\ \E ok \in BOOLEAN :
         /\ pc' = IF ok THEN "transcribe" ELSE "except"
         /\ exc' = IF ok THEN exc ELSE "split"
         /\ audio_chunks' = IF ok THEN convert_and_split_audio(job_audio).chunks
                            ELSE audio_chunks
    /\ UNCHANGED <<job_audio, language, loop_i, chunk_results, result_of, remote_calls, final_result,
                   transcript, usage>>
    /\ UNCHANGED merge_vars
    /\ UNCHANGED split_vars
    /\ UNCHANGED usage_vars

\* transcriber.py lines 197-200: one turn of the loop, the call returned
TranscribeChunk ==
    /\ pc = "transcribe"
    /\ loop_i < Len(audio_chunks)
    /\ \E words \in JobResponses(loop_i + 1) :
         chunk_results' = CollectResult(chunk_results, transcribe_audio_chunk(words))
    /\ result_of' = CollectResult(result_of, loop_i)
    /\ remote_calls' = Append(remote_calls, [chunk |-> loop_i, outcome |-> "ok"])
    /\ loop_i' = loop_i + 1
    /\ UNCHANGED <<pc, job_audio, language, audio_chunks, final_result, exc, transcript, usage>>
    /\ UNCHANGED merge_vars
    /\ UNCHANGED split_vars
    /\ UNCHANGED usage_vars

\* transcriber.py lines 197-199: one turn of the loop, the call raised
TranscribeChunkRaises ==
    /\ pc = "transcribe"
    /\ loop_i < Len(audio_chunks)
    /\ \E fault \in RemoteFaults :
         remote_calls' = Append(remote_calls, [chunk |-> loop_i, outcome |-> fault])
    /\ \E after \in {AfterChunkRaise(loop_i)} :
         /\ pc' = after.pc
         /\ exc' = after.exc
         /\ loop_i' = after.i
    /\ UNCHANGED <<job_audio, language, audio_chunks, chunk_results, result_of, final_result,
                   transcript, usage>>
    /\ UNCHANGED merge_vars
    /\ UNCHANGED split_vars
    /\ UNCHANGED usage_vars

\* transcriber.py lines 202-207: merge, add gcs_uri, return
MergeChunks ==
    /\ pc = "transcribe"
    /\ loop_i >= Len(audio_chunks)
    /\ \E r \in {merge_transcript_chunks(chunk_results)} :
         /\ chunk_results' = r.chunks_after
         /\ final_result' = IF r.raised THEN NoResult
                            ELSE [raised |-> FALSE, returned |-> TRUE,
                                  transcript_text |-> r.transcript_text,
                                  speaker_count |-> r.speaker_count,
                                  duration_seconds |-> r.duration_seconds,
                                  gcs_uri |-> GcsUri]
         /\ pc' = IF r.raised THEN "except" ELSE "summary"
         /\ exc' = IF r.raised THEN "merge" ELSE exc
    /\ UNCHANGED <<job_audio, language, audio_chunks, loop_i, result_of, remote_calls, transcript, usage>>
    /\ UNCHANGED merge_vars
    /\ UNCHANGED split_vars
    /\ UNCHANGED usage_vars

\* main.py lines 114-128: the summary and the 'done' update.  When the
\* summarizer falls back (summarizer.py line 73) it returns a str, and
\* summary_result["summary_text"] on line 124 raises before the update; the
\* update itself is committed or raises.
Summarize ==
    /\ pc = "summary"
    /\ \E outcome \in {"done", "summary", "status"} :
         /\ pc' = IF outcome = "done" THEN "usage" ELSE "except"
         /\ exc' = IF outcome = "done" THEN exc ELSE outcome
         /\ transcript' =
              IF outcome = "done"
              THEN update_transcript_status(transcript, "done",
                       [transcript_text |-> final_result.transcript_text,
                        summary_text |->
                            generate_basic_summary(final_result.transcript_text, language),
                        duration_seconds |-> final_result.duration_seconds,
                        speaker_count |-> final_result.speaker_count,
                        gcs_uri |-> final_result.gcs_uri])
              ELSE transcript
    /\ UNCHANGED <<job_audio, language, audio_chunks, loop_i, chunk_results, result_of, remote_calls, final_result,
                   usage>>
    /\ UNCHANGED merge_vars
    /\ UNCHANGED split_vars
    /\ UNCHANGED usage_vars

\* main.py lines 130-135: update_usage commits or raises
UpdateUsage ==
    /\ pc = "usage"
    /\ \E ok \in BOOLEAN :
         /\ pc' = IF ok THEN "finished" ELSE "except"
         /\ exc' = IF ok THEN exc ELSE "usage"
         /\ usage' = IF ok THEN update_usage(usage, final_result.duration_seconds)
                     ELSE usage
    /\ UNCHANGED <<job_audio, language, audio_chunks, loop_i, chunk_results, result_of, remote_calls, final_result,
                   transcript>>
    /\ UNCHANGED merge_vars
    /\ UNCHANGED split_vars
    /\ UNCHANGED usage_vars

\* main.py lines 137-140.  The handler writes through the session the task
\* was given, with the same update_transcript_status as lines 104 and 119:
\* the row is written, or the write raises in its turn (the session holds a
\* failed flush, or the database fails at this commit), the task ends with
\* that exception and the row stays as it was.
HandleException ==
    /\ pc = "except"
    /\ \E written \in BOOLEAN :
         transcript' = IF written
                       THEN update_transcript_status(transcript, "error", <<>>)
                       ELSE transcript
    /\ pc' = "finished"
    /\ UNCHANGED <<job_audio, language, audio_chunks, loop_i, chunk_results, result_of, remote_calls, final_result,
                   exc, usage>>
    /\ UNCHANGED merge_vars
    /\ UNCHANGED split_vars
    /\ UNCHANGED usage_vars

Init ==
    /\ JobIdle
    /\ MergeIdle
    /\ SplitIdle
    /\ UsageIdle

Next ==
    \/ upload_audio
    \/ StartProcessing
    \/ UploadToGcs
    \/ SplitAudio
    \/ TranscribeChunk
    \/ TranscribeChunkRaises
    \/ MergeChunks
    \/ Summarize
    \/ UpdateUsage
    \/ HandleException

Spec == Init /\ [][Next]_vars

\* a step of process_audio_background; the event loop runs a queued task to
\* its end, and every call it makes returns or raises
TaskStep ==
    \/ StartProcessing
    \/ UploadToGcs
    \/ SplitAudio
    \/ TranscribeChunk
    \/ TranscribeChunkRaises
    \/ MergeChunks
    \/ Summarize
    \/ UpdateUsage
    \/ HandleException

FairSpec == Init /\ [][Next]_vars /\ WF_vars(TaskStep)

(***************************************************************************)
(* Properties of the job (Spec).                                           *)
(***************************************************************************)
\* C1: once the transcription of a chunk has raised, transcribe_audio_file
\* returns nothing, the job's row is never 'done' (neither the status nor
\* completed_at is written), no transcript text is stored, and the row is in
\* status 'error' when the background task has ended.
C1_ChunkFailureFailsJob ==
    exc = "chunk" =>
        /\ pc \in {"except", "finished"}
        /\ ~final_result.returned
        /\ transcript.status \in {"processing", "error"}
        /\ transcript.transcript_text = Null
        /\ transcript.completed_at = Null
        /\ pc = "finished" => transcript.status = "error"

AboutToMerge == pc = "transcribe" /\ loop_i >= Len(audio_chunks)

\* C2: the list handed to merge_transcript_chunks holds one result per chunk,
\* the result of chunk number p at position p (no gap, duplicate or
\* reordering): the entry at position p was made from the response to chunk p.
C2_ResultsInChunkOrder ==
    /\ Len(result_of) = Len(chunk_results)
    /\ \A p \in 1..Len(result_of) : result_of[p] = p - 1
    /\ \A p \in 1..Len(chunk_results) :
         \A k \in 1..Len(chunk_results[p].segments) :
             chunk_results[p].segments[k].word \in {"w" \o ToString(p), SentenceEnd(p)}
    /\ (AboutToMerge \/ final_result.returned) =>
           Len(chunk_results) = Len(audio_chunks)

\* C2 witness: three chunks transcribed, each with a word, merge is next.
C2_Witness ==
    /\ AboutToMerge
    /\ Len(audio_chunks) = 3
    /\ result_of = <<0, 1, 2>>
    /\ \A p \in 1..3 : HasWords(chunk_results[p])

TaskQueued == pc = "queued"

TaskEnded == pc = "finished"

TerminalStatus == transcript.status \in {"done", "error"}

\* C14: a job whose background task was queued in status 'pending' is taken
\* to 'processing' and from there to 'done' or 'error': the task ends, the row
\* of an ended task says 'done' or 'error' (never 'pending' or 'processing'),
\* a row only becomes 'processing' from 'pending', and a row that says 'done'
\* or 'error' never goes back to 'pending' or 'processing'.
C14_JobReachesTerminalStatus ==
    /\ [](TaskEnded => TerminalStatus)
    /\ (TaskQueued /\ transcript.status = "pending") ~> (TaskEnded /\ TerminalStatus)
    /\ [][/\ transcript'.status = "processing" =>
                 transcript.status \in {"pending", "processing"}
          /\ TerminalStatus => TerminalStatus']_vars

\* C15: a row in status 'error' holds no transcript text and no completed_at:
\* once 'done' is written, no later step of the task makes it 'error'.
C15_DoneIsTerminal ==
    /\ transcript.status = "error" =>
          transcript.transcript_text = Null /\ transcript.completed_at = Null
    /\ exc = "usage" => (TaskEnded => transcript.status = "done")

\* the calls of long_running_recognize made for chunk number index
CallsFor(index) == {k \in 1..Len(remote_calls) : remote_calls[k].chunk = index}

LastCall == remote_calls[Len(remote_calls)]

\* C12: a job fails on a transient fault of a chunk's call (service
\* unavailable, timeout) only after that call was retried: when the fault that
\* ended the job is transient, the call for that chunk was made more than once.
C12_TransientFaultRetried ==
    (exc = "chunk" /\ LastCall.outcome \in TransientFaults) =>
        Cardinality(CallsFor(LastCall.chunk)) > 1

(***************************************************************************)
(* Properties of merge_transcript_chunks (SpecMerge).                      *)
(***************************************************************************)
Merged == merge_pc = "merged"

MaxEnd(segments) == SetMax({segments[k].end_time : k \in 1..Len(segments)})

\* The timeline offset in force when chunk i is processed: 0 for the first
\* chunk, then the largest end offset seen in the previous chunk (as rebased),
\* or the previous chunk's own offset when that chunk has no words.
RECURSIVE OffsetInForce(_)
OffsetInForce(i) ==
    IF i = 1 THEN 0
    ELSE IF HasWords(merged_chunks[i - 1]) THEN MaxEnd(merged_chunks[i - 1].segments)
    ELSE OffsetInForce(i - 1)

ShiftedBy(after, before, offset) ==
    /\ after.start_time = before.start_time + offset
    /\ after.end_time = before.end_time + offset
    /\ after.word = before.word
    /\ after.speaker = before.speaker

\* Merging <<A>> alone, then <<A, B, ...>>: where B's first word lands.
FirstOfSecondChunk == merged_chunks[2].segments[1].start_time

LocalFirstOfSecondChunk == chunks_results[2].segments[1].start_time

AAfterMergingAlone == merge_transcript_chunks(<<chunks_results[1]>>).chunks_after[1]

TwoChunksWithWords ==
    /\ Merged
    /\ Len(chunks_results) >= 2
    /\ HasWords(chunks_results[1])
    /\ HasWords(chunks_results[2])

\* C3 (as amended): every word of chunk i is shifted by the timeline offset in
\* force when chunk i is processed (0 at first, then the maximum end offset
\* seen in the last chunk that had words); and after merging [A] alone, merging
\* [A, B] puts B's first word at A's maximum end offset plus the word's own
\* local start.
C3_RebasedByOffsetInForce ==
    Merged =>
        /\ merge_result.returned
        /\ Len(merged_chunks) = Len(chunks_results)
        /\ \A i \in 1..Len(chunks_results) :
             /\ Len(merged_chunks[i].segments) = Len(chunks_results[i].segments)
             /\ \A k \in 1..Len(chunks_results[i].segments) :
                  ShiftedBy(merged_chunks[i].segments[k],
                            chunks_results[i].segments[k], OffsetInForce(i))
        /\ TwoChunksWithWords =>
             FirstOfSecondChunk =
                 MaxEnd(AAfterMergingAlone.segments) + LocalFirstOfSecondChunk

\* C3 witness: three chunks with words, the third one rebased by an offset that
\* accumulated over the first two.
C3_Witness ==
    /\ Merged
    /\ Len(chunks_results) = 3
    /\ \A i \in 1..3 : HasWords(chunks_results[i])
    /\ OffsetInForce(2) > 0
    /\ OffsetInForce(3) > OffsetInForce(2)
    /\ merged_chunks[3].segments[1].start_time =
           chunks_results[3].segments[1].start_time + OffsetInForce(3)

\* C3 as originally stated: B's first word lands at the end offset of A's LAST
\* word (plus its own local start).
C3_Original_LastWordEnd ==
    TwoChunksWithWords =>
        FirstOfSecondChunk =
            AAfterMergingAlone.segments[Len(AAfterMergingAlone.segments)].end_time
            + LocalFirstOfSecondChunk

\* The rebased words in chunk order, and where each one is in the rendered text.
AllRebased == Flatten([i \in 1..Len(merged_chunks) |-> merged_chunks[i].segments])

\* the positions of the word tokens in a text, in text order
WordPositions(text, tokens) ==
    SelectSeq([p \in 1..Len(text) |-> p], LAMBDA p : text[p] \in tokens)

IsLabel(token) == \E tag \in SpeakerTags : token = SpeakerLabel(tag)

\* `text` renders the words `all`: it holds every word once, in non-decreasing
\* start-offset order, and a "Speaker N: " label stands before a word exactly
\* when it is the first word or its tag differs from the tag of the word
\* rendered before it; the text holds no other label.
RendersWithLabels(all, text) ==
    LET tokens == {all[a].word : a \in 1..Len(all)}
        at == WordPositions(text, tokens)
        \* the word rendered j-th
        walk == [j \in 1..Len(at) |->
                    all[CHOOSE a \in 1..Len(all) : all[a].word = text[at[j]]]]
        labelled == [j \in 1..Len(at) |->
                        /\ at[j] > 1
                        /\ text[at[j] - 1] = SpeakerLabel(walk[j].speaker)]
    IN  /\ Len(at) = Len(all)
        /\ {text[at[j]] : j \in 1..Len(at)} = tokens
        /\ \A j \in 1..(Len(at) - 1) : walk[j].start_time <= walk[j + 1].start_time
        /\ \A j \in 1..Len(at) :
             labelled[j] <=> (j = 1 \/ walk[j - 1].speaker # walk[j].speaker)
        /\ Cardinality({p \in 1..Len(text) : IsLabel(text[p])})
               = Cardinality({j \in 1..Len(at) : labelled[j]})

\* C4: walking the rebased words in start-offset order, a "Speaker N: " label
\* is emitted for a word exactly when it is the first word or its speaker tag
\* differs from the tag of the previous word.
C4_LabelOnSpeakerChange ==
    Merged =>
        /\ merge_result.returned
        /\ RendersWithLabels(AllRebased, merge_result.transcript_text)

\* C4 witness: chunk 1 ends with tag 2 and chunk 2 starts with tag 1 (a new
\* "Speaker 1: " label at the boundary); chunk 3 starts with the tag chunk 2
\* ended with (no label at that boundary).
C4_Witness ==
    /\ Merged
    /\ Len(chunks_results) = 3
    /\ \A i \in 1..3 : Len(chunks_results[i].segments) = 1
    /\ chunks_results[1].segments[1].speaker = 2
    /\ chunks_results[2].segments[1].speaker = 1
    /\ chunks_results[3].segments[1].speaker = 1
    /\ merge_result.transcript_text =
          <<"Speaker 2: ", "w1", " ", "\n", "Speaker 1: ", "w2", " ", "w3">>

\* C5: the speaker count returned is the maximum of the chunks' local speaker
\* counts, 0 for no chunks.
C5_SpeakerCountIsMax ==
    Merged =>
        /\ merge_result.returned
        /\ merge_result.speaker_count =
               SetMax({0} \cup {chunks_results[i].speaker_count :
                                   i \in 1..Len(chunks_results)})

\* C5 witness: the largest local count belongs to the middle chunk.
C5_Witness ==
    /\ Merged
    /\ Len(chunks_results) = 3
    /\ chunks_results[1].speaker_count = 1
    /\ chunks_results[2].speaker_count = 2
    /\ chunks_results[3].speaker_count = 1
    /\ merge_result.speaker_count = 2

AllChunksEmpty == \A i \in 1..Len(chunks_results) : ~HasWords(chunks_results[i])

\* C6: merging zero chunks, or chunks that all have no words, returns empty
\* text, duration 0 and speaker count 0, and does not raise.
C6_DegenerateMerge ==
    (Merged /\ AllChunksEmpty) =>
        /\ ~merge_result.raised
        /\ merge_result.returned
        /\ merge_result.transcript_text = <<>>
        /\ merge_result.duration_seconds = 0
        /\ merge_result.speaker_count = 0

\* C6 witness: a merge of several chunks, none of which has a word.
C6_Witness ==
    /\ Merged
    /\ Len(chunks_results) >= 2
    /\ AllChunksEmpty
    /\ merge_result.returned

LocalMaxEnds ==
    [i \in 1..Len(chunks_results) |->
        IF HasWords(chunks_results[i]) THEN MaxEnd(chunks_results[i].segments) ELSE 0]

\* the timeline offset when the loop ends
FinalOffset == OffsetInForce(Len(merged_chunks) + 1)

\* C7: duration_seconds is the final timeline offset truncated to whole
\* seconds, which is the truncation of the sum, over the chunks with words, of
\* each chunk's maximum local end offset.
C7_DurationIsTruncatedSum ==
    Merged =>
        /\ merge_result.returned
        /\ FinalOffset = SumSeq(LocalMaxEnds)
        /\ merge_result.duration_seconds * TicksPerSecond <= FinalOffset
        /\ FinalOffset < (merge_result.duration_seconds + 1) * TicksPerSecond

\* C7 witness: chunks with words [0.0-1.0] and [0.0-2.0] and a third one that
\* ends off a whole second: the duration is 3.
C7_Witness ==
    /\ Merged
    /\ Len(chunks_results) = 3
    /\ LocalMaxEnds[1] = TicksPerSecond
    /\ LocalMaxEnds[2] = 2 * TicksPerSecond
    /\ SumSeq(LocalMaxEnds) % TicksPerSecond # 0
    /\ merge_result.duration_seconds = 3

(***************************************************************************)
(* Properties of a second merge (SpecMerge).                               *)
(***************************************************************************)
MergedAgain == merge_pc = "merged_again"

\* C13: merge_transcript_chunks leaves the offsets of the chunk results it is
\* given as they were, and a second call on the same list returns the
\* transcript text, duration and speaker count of the first call.
C13_MergeLeavesInputUnchanged ==
    /\ Merged => merged_chunks = chunks_results
    /\ MergedAgain =>
          /\ second_result.returned
          /\ second_result.transcript_text = merge_result.transcript_text
          /\ second_result.duration_seconds = merge_result.duration_seconds
          /\ second_result.speaker_count = merge_result.speaker_count

(***************************************************************************)
(* The sort of merge_transcript_chunks on well-formed input (SpecMerge).   *)
(***************************************************************************)
\* every word of the list has 0 <= start <= end, and the starts do not
\* decrease within a chunk
WellFormed(chunks_res) ==
    \A i \in 1..Len(chunks_res) :
        LET segments == chunks_res[i].segments
        IN  /\ \A k \in 1..Len(segments) :
                 0 <= segments[k].start_time /\ segments[k].start_time <= segments[k].end_time
            /\ \A k \in 1..(Len(segments) - 1) :
                 segments[k].start_time <= segments[k + 1].start_time

\* the words of a rendered text, in text order
RenderedWords(text, tokens) ==
    LET at == WordPositions(text, tokens) IN [j \in 1..Len(at) |-> text[at[j]]]

\* C16: on chunk results whose words have 0 <= start <= end and whose starts
\* do not decrease within a chunk, the words are rendered in the order of the
\* concatenation of the chunks' word lists, and every rebased start of a chunk
\* is at least every rebased end of the chunks before it.
C16_SortKeepsChunkOrder ==
    (Merged /\ WellFormed(chunks_results)) =>
        /\ RenderedWords(merge_result.transcript_text,
                         {AllRebased[a].word : a \in 1..Len(AllRebased)})
               = [a \in 1..Len(AllRebased) |-> AllRebased[a].word]
        /\ \A i \in 1..Len(merged_chunks) : \A h \in 1..(i - 1) :
             \A k \in 1..Len(merged_chunks[i].segments) :
                 \A l \in 1..Len(merged_chunks[h].segments) :
                     merged_chunks[i].segments[k].start_time
                         >= merged_chunks[h].segments[l].end_time

\* C16 witness: two chunks with words, the first word of the second chunk
\* rebased to exactly the start of a word of the first chunk (a tie the sort
\* has to keep in chunk order), and a second word after it.
C16_Witness ==
    /\ Merged
    /\ WellFormed(chunks_results)
    /\ Len(chunks_results) = 2
    /\ Len(merged_chunks[1].segments) = 1
    /\ Len(merged_chunks[2].segments) = 2
    /\ merged_chunks[2].segments[1].start_time = merged_chunks[1].segments[1].start_time
    /\ merged_chunks[2].segments[2].start_time > merged_chunks[2].segments[1].start_time
    /\ merge_result.transcript_text = <<"Speaker 1: ", "w1", " ", "w2", " ", "w3">>

(***************************************************************************)
(* update_usage run by the background tasks of one user in one period.     *)
(* Every task has its own Session (get_db); the engine is created without  *)
(* an isolation level, so every statement reads what is committed when it  *)
(* runs.  update_usage is a SELECT (lines 136-139), a change made in       *)
(* Python on what the SELECT returned (lines 141-149) and a commit (line   *)
(* 151) that sends UPDATE ... SET seconds_transcribed = <the new value>, or *)
(* INSERT when the SELECT found no row.                                    *)
(***************************************************************************)
Tasks == 1..NumTasks

\* duration_seconds of a job that is written 'done'
JobDurations == {1, 2}

NotStarted == [pc |-> "transcribing", status |-> "processing",
               duration_seconds |-> 0, loaded |-> Null]

UsageInit ==
    /\ usage_row \in {Null, Some(0)}
    /\ sessions = [t \in Tasks |-> NotStarted]
    /\ MergeIdle
    /\ SplitIdle
    /\ JobIdle

\* main.py lines 118-128: the task writes 'done' with the job's duration
WriteDone(t) ==
    /\ sessions[t].pc = "transcribing"
    /\ \E d \in JobDurations :
         sessions' = [sessions EXCEPT ![t].pc = "usage", ![t].status = "done",
                                      ![t].duration_seconds = d]
    /\ UNCHANGED usage_row
    /\ UNCHANGED merge_vars
    /\ UNCHANGED split_vars
    /\ UNCHANGED job_vars

\* database.py lines 136-139: the row of the period as committed now, or None
QueryUsage(t) ==
    /\ sessions[t].pc = "usage"
    /\ sessions' = [sessions EXCEPT ![t].pc = "loaded", ![t].loaded = usage_row]
    /\ UNCHANGED usage_row
    /\ UNCHANGED merge_vars
    /\ UNCHANGED split_vars
    /\ UNCHANGED job_vars

\* database.py lines 141-151: the loaded row plus the job's seconds is
\* written, or a new row is inserted; the INSERT fails on the primary key
\* (user_id, period_start) when another task has inserted the row meanwhile
CommitUsage(t) ==
    /\ sessions[t].pc = "loaded"
    /\ IF sessions[t].loaded # Null
       THEN /\ usage_row' = Some(update_usage(sessions[t].loaded[1],
                                              sessions[t].duration_seconds))
            /\ sessions' = [sessions EXCEPT ![t].pc = "finished"]
       ELSE IF usage_row = Null
       THEN /\ usage_row' = Some(sessions[t].duration_seconds)
            /\ sessions' = [sessions EXCEPT ![t].pc = "finished"]
       ELSE /\ usage_row' = usage_row
            /\ sessions' = [sessions EXCEPT ![t].pc = "except"]
    /\ UNCHANGED merge_vars
    /\ UNCHANGED split_vars
    /\ UNCHANGED job_vars

\* main.py lines 137-140 after the failed commit: 'error' is written, or the
\* write raises on the session of the failed flush and the row stays 'done'
UsageHandleException(t) ==
    /\ sessions[t].pc = "except"
    /\ \E written \in BOOLEAN :
         sessions' = [sessions EXCEPT ![t].pc = "finished",
                                      ![t].status = IF written THEN "error" ELSE @]
    /\ UNCHANGED usage_row
    /\ UNCHANGED merge_vars
    /\ UNCHANGED split_vars
    /\ UNCHANGED job_vars

UsageNext ==
    \E t \in Tasks :
        \/ WriteDone(t)
        \/ QueryUsage(t)
        \/ CommitUsage(t)
        \/ UsageHandleException(t)

SpecUsage == UsageInit /\ [][UsageNext]_vars

AllTasksEnded == sessions # <<>> /\ \A t \in Tasks : sessions[t].pc = "finished"

DoneSeconds ==
    SumSeq([t \in Tasks |-> IF sessions[t].status = "done"
                            THEN sessions[t].duration_seconds ELSE 0])

\* C17: when the tasks of the user have ended, seconds_transcribed of the
\* period's row is the sum of duration_seconds of the jobs that ended 'done'.
C17_UsageCountsEachDoneJobOnce ==
    AllTasksEnded => usage_row = Some(DoneSeconds)

====
